---- MODULE Spec2Model ----
(***************************************************************************)
(* A model of one computation pass of the household dashboard              *)
(* (src/dashboard.py, main): the initial load of the two row sets, the     *)
(* site filter and totals, the three data-quality checks and the four      *)
(* report tallies.  The SQL each view sends to the record store is         *)
(* modelled by an operator over the store's rows; text (site names,        *)
(* interview timestamps) is a sequence of one-character strings, so that   *)
(* lower-casing, the date regular expression, SUBSTRING and TO_DATE are    *)
(* computed and not assumed.                                               *)
(***************************************************************************)
EXTENDS Integers, Sequences, FiniteSets, TLC

VARIABLES
    store,                  \* the record store: [hh: households, ind: individuals]
    raises,                 \* the statements of this pass that raise (environment's choice)
    selected_site,          \* st.sidebar.selectbox("Select Site", sites)
    pc,                     \* position of the pass in main()
    hh_df, ind_df,          \* the two frames of the initial load
    loaded,                 \* which of the two initial fetches returned
    site_hh_df,             \* hh_df filtered to the selected site
    totals,                 \* total_hh_all, total_ind_all, total_hh_site, total_ind_site
    status,                 \* per view: "none" (not reached), "ok" (rendered), "error" (reported)
    missing_gps_df,
    missing_respondent_df,
    missing_individual_df,
    metrics,                \* the summary counters shown by the three quality checks
    app,                    \* app.py: st.session_state and the position of the script run
    daily_tally_df,
    display_df,             \* the monthly progressive tally as displayed
    outcomes_df,
    mortality_df,
    mortality_cells,        \* the ten numbers formatted into the mortality table
    writes                  \* number of changes made to the record store during the pass

vars == << store, raises, selected_site, pc, hh_df, ind_df, loaded, site_hh_df,
           totals, status, missing_gps_df, missing_respondent_df,
           missing_individual_df, daily_tally_df, display_df, outcomes_df,
           mortality_df, mortality_cells, writes, metrics, app >>

(***************************************************************************)
(* Nullable values.  A column value is NULL or Val(v); SQL's `x = v` and   *)
(* pandas' comparisons are false (unknown) on NULL.                        *)
(***************************************************************************)
NULL == {}
Val(v) == {v}
The(x) == CHOOSE v \in x : TRUE
IsNull(x) == x = NULL
Eq(x, v) == x = Val(v)

Min(a, b) == IF a <= b THEN a ELSE b

RECURSIVE SumFn(_, _)
\* SUM / .sum(): the sum of f[r] over the rows r of the set S
SumFn(f, S) ==
    IF S = {} THEN 0
    ELSE LET r == CHOOSE x \in S : TRUE IN f[r] + SumFn(f, S \ {r})

RECURSIVE SumSeq(_)
\* .sum() of a column (a sequence of numbers)
SumSeq(s) ==
    IF s = << >> THEN 0 ELSE Head(s) + SumSeq(Tail(s))

(***************************************************************************)
(* Text                                                                    *)
(***************************************************************************)
UpperLetters == << "A","B","C","D","E","F","G","H","I","J","K","L","M",
                   "N","O","P","Q","R","S","T","U","V","W","X","Y","Z" >>
LowerLetters == << "a","b","c","d","e","f","g","h","i","j","k","l","m",
                   "n","o","p","q","r","s","t","u","v","w","x","y","z" >>
DigitChars == << "0","1","2","3","4","5","6","7","8","9" >>

LowerChar(c) ==
    IF \E i \in DOMAIN UpperLetters : UpperLetters[i] = c
    THEN LowerLetters[CHOOSE i \in DOMAIN UpperLetters : UpperLetters[i] = c]
    ELSE c

\* str.lower()
Lower(s) == [i \in DOMAIN s |-> LowerChar(s[i])]

IsDigit(c) == \E i \in DOMAIN DigitChars : DigitChars[i] = c
DigitVal(c) == (CHOOSE i \in DOMAIN DigitChars : DigitChars[i] = c) - 1

\* the number written by the digits s[a..b]
RECURSIVE Number(_, _, _)
Number(s, a, b) ==
    IF b < a THEN 0 ELSE Number(s, a, b - 1) * 10 + DigitVal(s[b])

\* the site list of the selectbox
central           == << "c","e","n","t","r","a","l" >>
east_new_britian  == << "e","a","s","t","_","n","e","w","_","b","r","i","t","i","a","n" >>
eastern_highlands == << "e","a","s","t","e","r","n","_","h","i","g","h","l","a","n","d","s" >>
ncd               == << "n","c","d" >>
east_sepik        == << "e","a","s","t","_","s","e","p","i","k" >>
sites == << central, east_new_britian, eastern_highlands, ncd, east_sepik >>

sector_map == [c \in 1..4 |-> << "Urban", "Peri-Urban", "Settlement", "Rural" >>[c]]

interview_codes == {1, 2, 3, 4, 5, 6, 96}
interview_map == [c \in interview_codes |->
    CASE c = 1  -> "Completed"
      [] c = 2  -> "Partially completed"
      [] c = 3  -> "Household refused to participate"
      [] c = 4  -> "Entire household migrated out/absent for extended period"
      [] c = 5  -> "No competent respondent available at home"
      [] c = 6  -> "Other (Specify)"
      [] c = 96 -> "Don't know"]

(***************************************************************************)
(* Dates of the record store (PostgreSQL)                                  *)
(***************************************************************************)
IsLeap(y) == (y % 4 = 0 /\ y % 100 # 0) \/ y % 400 = 0
DaysIn(y, m) ==
    IF m = 2 THEN (IF IsLeap(y) THEN 29 ELSE 28)
    ELSE IF m \in {4, 6, 9, 11} THEN 30 ELSE 31

\* interview_date_time_1 ~ '^\d{4}-\d{2}-\d{2}'
MatchesDatePrefix(t) ==
    /\ Len(t) >= 10
    /\ \A i \in {1, 2, 3, 4, 6, 7, 9, 10} : IsDigit(t[i])
    /\ t[5] = "-" /\ t[8] = "-"

\* SUBSTRING(t, 1, 10)
Substring10(t) == SubSeq(t, 1, Min(10, Len(t)))

\* TO_DATE(s, 'YYYY-MM-DD') of a text that matches the pattern: the date, or
\* an error when a field is out of range
ToDate(s) ==
    LET y == Number(s, 1, 4)
        m == Number(s, 6, 7)
        d == Number(s, 9, 10)
    IN IF y >= 1 /\ m \in 1..12 /\ d \in 1..DaysIn(y, m)
       THEN [ok |-> TRUE, y |-> y, m |-> m, d |-> d]
       ELSE [ok |-> FALSE, y |-> 0, m |-> 0, d |-> 0]

\* DATE_TRUNC('month', d)
DateTruncMonth(d) == [y |-> d.y, m |-> d.m]

MonthAbbrev == << << "J","a","n" >>, << "F","e","b" >>, << "M","a","r" >>,
                  << "A","p","r" >>, << "M","a","y" >>, << "J","u","n" >>,
                  << "J","u","l" >>, << "A","u","g" >>, << "S","e","p" >>,
                  << "O","c","t" >>, << "N","o","v" >>, << "D","e","c" >> >>
\* the four digits of a year
YearText(y) == << DigitChars[((y \div 1000) % 10) + 1], DigitChars[((y \div 100) % 10) + 1],
                  DigitChars[((y \div 10) % 10) + 1], DigitChars[(y % 10) + 1] >>
\* TO_CHAR(month, 'Mon YYYY')
ToCharMonYYYY(mo) == MonthAbbrev[mo.m] \o << " " >> \o YearText(mo.y)

MonthBefore(a, b) == a.y < b.y \/ (a.y = b.y /\ a.m < b.m)

\* DATE(text): the cast of the free-text timestamp to a date.  ISO text
\* (a date, optionally followed by a time of day) is read as its date; any
\* other text of the modelled alphabet is rejected with an error.
DateCast(t) ==
    IF IsNull(t) THEN [ok |-> TRUE, date |-> NULL]
    ELSE IF MatchesDatePrefix(The(t)) /\ ToDate(Substring10(The(t))).ok
         THEN LET d == ToDate(Substring10(The(t)))
              IN [ok |-> TRUE, date |-> Val(<< d.y, d.m, d.d >>)]
         ELSE [ok |-> FALSE, date |-> NULL]

(***************************************************************************)
(* Rows of the record store                                                *)
(***************************************************************************)
\* the columns of `households` that the SELECT of the initial load names
\* (four_1_1 is fetched under the name dwelling_number)
HhDfColumns == { "key", "pro_name", "location_name", "sector",
                 "hh_gps_latitude", "hh_gps_longitude", "hh_gps_altitude", "hh_gps_accuracy",
                 "water_source_gps_latitude", "water_source_gps_longitude",
                 "toilet_gps_latitude", "toilet_gps_longitude",
                 "four_3_1", "four_5_1", "interview_date_time_1", "agree_yes" }

\* SELECT ... four_1_1 as dwelling_number ... FROM households
SelectHouseholds(H) ==
    { [c \in HhDfColumns \cup {"dwelling_number"} |->
          IF c = "dwelling_number" THEN h.four_1_1 ELSE h[c]] : h \in H }

\* SELECT parent_key, key FROM individuals
SelectIndividuals(I) == { [parent_key |-> i.parent_key, key |-> i.key] : i \in I }

\* the mapping with a label in place of the missing value
SectorName_Unknown(sector) ==
    IF ~IsNull(sector) /\ The(sector) \in DOMAIN sector_map
    THEN Val(sector_map[The(sector)]) ELSE Val("Unknown")

\* pd.to_numeric(hh_df['sector'], errors='coerce').map(sector_map)
SectorName(sector) ==
    IF ~IsNull(sector) /\ The(sector) \in DOMAIN sector_map
    THEN Val(sector_map[The(sector)]) ELSE NULL

\* hh_df['sector_name'] = ...
Classify(df) ==
    { [c \in DOMAIN r \cup {"sector_name"} |->
          IF c = "sector_name" THEN SectorName(r.sector) ELSE r[c]] : r \in df }

\* hh_df[hh_df['pro_name'].str.lower() == selected_site.lower()]
SiteFilterRows(df, site) ==
    { r \in df : ~IsNull(r.pro_name) /\ Lower(The(r.pro_name)) = Lower(site) }

\* len(ind_df[ind_df['parent_key'].isin(site_hh_df['key'])])
IndividualsOf(idf, hdf) ==
    Cardinality({ i \in idf : \E h \in hdf : Eq(i.parent_key, h.key) })

\* WHERE pro_name = %s with params=(selected_site,)
SiteRows(H, site) == { h \in H : Eq(h.pro_name, site) }

(***************************************************************************)
(* Data Quality: the three audit queries.  A detail row carries `row`, the *)
(* identity of the store row it was made from (the frame's index): two     *)
(* households with equal columns are two rows.                             *)
(***************************************************************************)
\* the GPS-accuracy threshold of the queries (metres)
GpsThreshold == 5

\* CASE WHEN lat IS NULL OR lon IS NULL OR alt IS NULL THEN 'Missing' ELSE 'Complete' END
GpsStatus(lat, lon, alt) ==
    IF IsNull(lat) \/ IsNull(lon) \/ IsNull(alt) THEN "Missing" ELSE "Complete"

\* the accuracy label with the threshold itself counted as inaccurate
GpsAccuracyLabel_AtThreshold(acc) ==
    IF IsNull(acc) THEN [word |-> "N/A", m |-> NULL]
    ELSE IF The(acc) >= GpsThreshold THEN [word |-> "Inaccurate", m |-> acc]
    ELSE [word |-> "Accurate", m |-> acc]

\* CASE WHEN acc IS NULL THEN 'N/A' WHEN acc > 5 THEN CONCAT('Inaccurate (', acc::int, 'm)')
\*      ELSE CONCAT('Accurate (', acc::int, 'm)') END; the label is kept as its
\* leading word and the metres
GpsAccuracyLabel(acc) ==
    IF IsNull(acc) THEN [word |-> "N/A", m |-> NULL]
    ELSE IF The(acc) > GpsThreshold THEN [word |-> "Inaccurate", m |-> acc]
    ELSE [word |-> "Accurate", m |-> acc]

\* the triple's condition without its last disjunct, acc IS NULL
GpsDefect_AccuracyKnown(lat, lon, alt, acc) ==
    \/ IsNull(lat) \/ IsNull(lon) \/ IsNull(alt)
    \/ (~IsNull(acc) /\ The(acc) > GpsThreshold)

\* (lat IS NULL OR lon IS NULL OR alt IS NULL OR acc > 5 OR acc IS NULL)
GpsDefect(lat, lon, alt, acc) ==
    \/ IsNull(lat) \/ IsNull(lon) \/ IsNull(alt)
    \/ (~IsNull(acc) /\ The(acc) > GpsThreshold)
    \/ IsNull(acc)

missing_gps_where(h, site) ==
    /\ Eq(h.agree_yes, 1)
    /\ Eq(h.pro_name, site)
    /\ \/ GpsDefect(h.hh_gps_latitude, h.hh_gps_longitude, h.hh_gps_altitude, h.hh_gps_accuracy)
       \/ GpsDefect(h.water_source_gps_latitude, h.water_source_gps_longitude,
                    h.water_source_gps_altitude, h.water_source_gps_accuracy)
       \/ GpsDefect(h.toilet_gps_latitude, h.toilet_gps_longitude,
                    h.toilet_gps_altitude, h.toilet_gps_accuracy)

missing_gps_query(db, site) ==
    { [ row |-> h.key,
        Village |-> h.location_name,
        LocationNumber |-> h.location_num,
        HouseholdNumber |-> h.four_1_1,
        DataCollector |-> h.four_3_1,
        QualityChecker |-> h.four_5_1,
        InterviewDateTime |-> h.interview_date_time_1,
        HouseholdGPS |-> GpsStatus(h.hh_gps_latitude, h.hh_gps_longitude, h.hh_gps_altitude),
        WaterSourceGPS |-> GpsStatus(h.water_source_gps_latitude, h.water_source_gps_longitude,
                                     h.water_source_gps_altitude),
        ToiletGPS |-> GpsStatus(h.toilet_gps_latitude, h.toilet_gps_longitude,
                                h.toilet_gps_altitude),
        HouseholdGPSAccuracy |-> GpsAccuracyLabel(h.hh_gps_accuracy),
        WaterSourceGPSAccuracy |-> GpsAccuracyLabel(h.water_source_gps_accuracy),
        ToiletGPSAccuracy |-> GpsAccuracyLabel(h.toilet_gps_accuracy) ]
      : h \in { x \in db.hh : missing_gps_where(x, site) } }

\* the six summary counters of the GPS check
hh_missing(df)        == Cardinality({ r \in df : r.HouseholdGPS = "Missing" })
\* the household counter counting every accuracy not labelled Accurate
hh_inaccurate_NotAccurate(df) ==
    Cardinality({ r \in df : r.HouseholdGPSAccuracy.word # "Accurate" })
hh_inaccurate(df)     == Cardinality({ r \in df : r.HouseholdGPSAccuracy.word = "Inaccurate" })
water_missing(df)     == Cardinality({ r \in df : r.WaterSourceGPS = "Missing" })
\* the water-source counter read from the household accuracy column
water_inaccurate_FromHousehold(df) ==
    Cardinality({ r \in df : r.HouseholdGPSAccuracy.word = "Inaccurate" })
water_inaccurate(df)  == Cardinality({ r \in df : r.WaterSourceGPSAccuracy.word = "Inaccurate" })
toilet_missing(df)    == Cardinality({ r \in df : r.ToiletGPS = "Missing" })
toilet_inaccurate(df) == Cardinality({ r \in df : r.ToiletGPSAccuracy.word = "Inaccurate" })

\* if not missing_gps_df.empty: the six st.metric values; else st.success(...)
NoGpsMetrics ==
    [ shown |-> FALSE, hh_missing |-> 0, hh_inaccurate |-> 0, water_missing |-> 0,
      water_inaccurate |-> 0, toilet_missing |-> 0, toilet_inaccurate |-> 0 ]
GpsMetrics(df) ==
    IF df = {} THEN NoGpsMetrics
    ELSE [ shown |-> TRUE,
           hh_missing |-> hh_missing(df), hh_inaccurate |-> hh_inaccurate(df),
           water_missing |-> water_missing(df), water_inaccurate |-> water_inaccurate(df),
           toilet_missing |-> toilet_missing(df), toilet_inaccurate |-> toilet_inaccurate(df) ]

\* the condition without agree_yes = 1
missing_respondent_where_AnyConsent(h, site) ==
    /\ Eq(h.pro_name, site)
    /\ \/ IsNull(h.consent_respondent_name)
       \/ IsNull(h.consent_respondent_relo)
       \/ IsNull(h.consent_total_hh_members)

missing_respondent_where(h, site) ==
    /\ Eq(h.agree_yes, 1)
    /\ Eq(h.pro_name, site)
    /\ \/ IsNull(h.consent_respondent_name)
       \/ IsNull(h.consent_respondent_relo)
       \/ IsNull(h.consent_total_hh_members)

missing_respondent_query(db, site) ==
    { [ row |-> h.key,
        location_name |-> h.location_name,
        location_num |-> h.location_num,
        dwelling_number |-> h.four_1_1,
        data_collector |-> h.four_3_1,
        quality_checker |-> h.four_5_1,
        interview_datetime |-> h.interview_date_time_1,
        consent_respondent_name |-> h.consent_respondent_name,
        consent_respondent_relo |-> h.consent_respondent_relo,
        consent_total_hh_members |-> h.consent_total_hh_members ]
      : h \in { x \in db.hh : missing_respondent_where(x, site) } }

missing_name(df)    == Cardinality({ r \in df : IsNull(r.consent_respondent_name) })
missing_relo(df)    == Cardinality({ r \in df : IsNull(r.consent_respondent_relo) })
missing_members(df) == Cardinality({ r \in df : IsNull(r.consent_total_hh_members) })

\* if not missing_respondent_df.empty: the three st.metric values
NoRespondentMetrics ==
    [ shown |-> FALSE, missing_name |-> 0, missing_relo |-> 0, missing_members |-> 0 ]
RespondentMetrics(df) ==
    IF df = {} THEN NoRespondentMetrics
    ELSE [ shown |-> TRUE, missing_name |-> missing_name(df),
           missing_relo |-> missing_relo(df), missing_members |-> missing_members(df) ]

\* the condition without i.indiv_line_num IS NOT NULL
missing_individual_where_AnyLine(i, h, site) ==
    /\ Eq(i.parent_key, h.key)
    /\ Eq(h.agree_yes, 1)
    /\ Eq(h.pro_name, site)
    /\ \/ IsNull(i.indiv_fname)
       \/ IsNull(i.indiv_lname)
       \/ IsNull(i.sex)

missing_individual_where(i, h, site) ==
    /\ Eq(i.parent_key, h.key)
    /\ Eq(h.agree_yes, 1)
    /\ Eq(h.pro_name, site)
    /\ ~IsNull(i.indiv_line_num)
    /\ \/ IsNull(i.indiv_fname)
       \/ IsNull(i.indiv_lname)
       \/ IsNull(i.sex)

missing_individual_query(db, site) ==
    { [ row |-> p[1].key,
        location_name |-> p[2].location_name,
        location_num |-> p[2].location_num,
        dwelling_number |-> p[2].four_1_1,
        indiv_fname |-> p[1].indiv_fname,
        indiv_lname |-> p[1].indiv_lname,
        sex |-> p[1].sex,
        indiv_line_num |-> p[1].indiv_line_num,
        parent_key |-> p[1].parent_key,
        household_key |-> p[2].key ]
      : p \in { q \in db.ind \X db.hh : missing_individual_where(q[1], q[2], site) } }

missing_fname(df) == Cardinality({ r \in df : IsNull(r.indiv_fname) })
missing_lname(df) == Cardinality({ r \in df : IsNull(r.indiv_lname) })
missing_sex(df)   == Cardinality({ r \in df : IsNull(r.sex) })

\* if not missing_individual_df.empty: the three st.metric values
NoIndividualMetrics ==
    [ shown |-> FALSE, missing_fname |-> 0, missing_lname |-> 0, missing_sex |-> 0 ]
IndividualMetrics(df) ==
    IF df = {} THEN NoIndividualMetrics
    ELSE [ shown |-> TRUE, missing_fname |-> missing_fname(df),
           missing_lname |-> missing_lname(df), missing_sex |-> missing_sex(df) ]

(***************************************************************************)
(* Report: Form 1A, the daily tally                                        *)
(***************************************************************************)
\* WHERE h.agree_yes IS NOT NULL AND h.pro_name = %s
daily_tally_where(h, site) == ~IsNull(h.agree_yes) /\ Eq(h.pro_name, site)

\* GROUP BY h.four_3_1, h.location_name, DATE(h.interview_date_time_1)
DailyGroup(h) ==
    [ data_collector |-> h.four_3_1,
      village_name |-> h.location_name,
      collection_date |-> DateCast(h.interview_date_time_1).date ]

\* the count of the codes up to k instead of the code k
CountCode_UpTo(G, k) ==
    SumFn([h \in G |-> IF ~IsNull(h.four_1_1) /\ The(h.four_1_1) <= k THEN 1 ELSE 0], G)

\* SUM(CASE WHEN h.four_1_1 = k THEN 1 ELSE 0 END)
CountCode(G, k) == SumFn([h \in G |-> IF Eq(h.four_1_1, k) THEN 1 ELSE 0], G)

\* the query's result: ok is FALSE when the store rejects it (a timestamp
\* that DATE() cannot cast), and then there are no rows
daily_tally_query(db, site) ==
    LET rows == { h \in db.hh : daily_tally_where(h, site) }
        members(g) == { h \in rows : DailyGroup(h) = g }
    IN IF \E h \in rows : ~DateCast(h.interview_date_time_1).ok
       THEN [ok |-> FALSE, rows |-> {}]
       ELSE [ok |-> TRUE, rows |->
              { [ data_collector |-> g.data_collector,
                  village_name |-> g.village_name,
                  collection_date |-> g.collection_date,
                  completed |-> CountCode(members(g), 1),
                  partially_completed |-> CountCode(members(g), 2),
                  refused |-> CountCode(members(g), 3),
                  could_not_be_located |-> CountCode(members(g), 4),
                  other |-> CountCode(members(g), 5),
                  dont_know |-> CountCode(members(g), 6),
                  total_interviews |-> Cardinality(members(g)) ]
                : g \in { DailyGroup(h) : h \in rows } }]

(***************************************************************************)
(* Report: Form 1B, the progressive monthly tally                          *)
(***************************************************************************)
\* WHERE h.pro_name = %s AND h.interview_date_time_1 ~ '^\d{4}-\d{2}-\d{2}' AND h.four_1_1 = 1
monthly_where(h, site) ==
    /\ Eq(h.pro_name, site)
    /\ ~IsNull(h.interview_date_time_1)
    /\ MatchesDatePrefix(The(h.interview_date_time_1))
    /\ Eq(h.four_1_1, 1)

InterviewDate(h) == ToDate(Substring10(The(h.interview_date_time_1)))
\* DATE_TRUNC('month', TO_DATE(SUBSTRING(h.interview_date_time_1, 1, 10), 'YYYY-MM-DD'))
InterviewMonth(h) == DateTruncMonth(InterviewDate(h))

\* the CTE monthly_sector_data: one row per (month, sector, four_1_1)
monthly_sector_data(db, site) ==
    LET rows == { h \in db.hh : monthly_where(h, site) }
        members(mo, sec) == { h \in rows : InterviewMonth(h) = mo /\ h.sector = sec }
        \* the rows of h LEFT JOIN i that carry an individual
        joined(G) == { p \in G \X db.ind : Eq(p[2].parent_key, p[1].key) }
    IN { [ month |-> g[1], sector |-> g[2], interview_result |-> Val(1),
           households |-> Cardinality(members(g[1], g[2])),
           population |-> Cardinality(joined(members(g[1], g[2]))) ]
         : g \in { << InterviewMonth(h), h.sector >> : h \in rows } }

\* the CTE monthly_totals: SUM(households), SUM(population) ... GROUP BY month
monthly_totals(msd, mo) ==
    LET M == { r \in msd : r.month = mo }
    IN [ total_households |-> SumFn([r \in M |-> r.households], M),
         total_population |-> SumFn([r \in M |-> r.population], M) ]

\* COALESCE(MAX(CASE WHEN msd.sector = k THEN msd.<col> END), 0)
RECURSIVE MaxOf(_)
MaxOf(S) ==
    LET x == CHOOSE v \in S : TRUE
    IN IF S = {x} THEN x
       ELSE LET m == MaxOf(S \ {x}) IN IF x >= m THEN x ELSE m
CoalesceMax(S) == IF S = {} THEN 0 ELSE MaxOf(S)

MonthlyRow(msd, mo) ==
    LET M == { r \in msd : r.month = mo }
        hh(k)  == CoalesceMax({ r.households : r \in { x \in M : Eq(x.sector, k) } })
        pop(k) == CoalesceMax({ r.population : r \in { x \in M : Eq(x.sector, k) } })
    IN [ month_display |-> ToCharMonYYYY(mo), month |-> mo,
         urban_households |-> hh(1), urban_population |-> pop(1),
         periurban_households |-> hh(2), periurban_population |-> pop(2),
         settlement_households |-> hh(3), settlement_population |-> pop(3),
         rural_households |-> hh(4), rural_population |-> pop(4),
         total_households |-> monthly_totals(msd, mo).total_households,
         total_population |-> monthly_totals(msd, mo).total_population ]

\* ORDER BY msd.month
RECURSIVE OrderByMonth(_)
OrderByMonth(R) ==
    IF R = {} THEN << >>
    ELSE LET first == CHOOSE r \in R : \A o \in R \ {r} : MonthBefore(r.month, o.month)
         IN << first >> \o OrderByMonth(R \ {first})

\* the query's result: ok is FALSE when TO_DATE rejects a text that matched
\* the pattern (month 13, day 45)
monthly_tally_query(db, site) ==
    LET rows == { h \in db.hh : monthly_where(h, site) }
    IN IF \E h \in rows : ~InterviewDate(h).ok
       THEN [ok |-> FALSE, rows |-> << >>]
       ELSE LET msd == monthly_sector_data(db, site)
            IN [ok |-> TRUE,
                rows |-> OrderByMonth({ MonthlyRow(msd, mo) : mo \in { r.month : r \in msd } })]

DisplayColumns == { "Urban_HH", "Urban_Pop", "PeriUrban_HH", "PeriUrban_Pop",
                    "Settlement_HH", "Settlement_Pop", "Rural_HH", "Rural_Pop",
                    "Total_HH", "Total_Pop" }

\* month_data = {...} for one row of monthly_tally_df
month_data(row) ==
    [ Month |-> row.month_display,
      Urban_HH |-> row.urban_households, Urban_Pop |-> row.urban_population,
      PeriUrban_HH |-> row.periurban_households, PeriUrban_Pop |-> row.periurban_population,
      Settlement_HH |-> row.settlement_households, Settlement_Pop |-> row.settlement_population,
      Rural_HH |-> row.rural_households, Rural_Pop |-> row.rural_population,
      Total_HH |-> row.total_households, Total_Pop |-> row.total_population ]

GRAND_TOTAL == << "G","R","A","N","D"," ","T","O","T","A","L" >>

\* display_df[col].sum()
ColumnSum(df, col) == SumSeq([i \in 1..Len(df) |-> df[i][col]])

\* the same with 'Total (Pop)' summed from the 'Total (HH)' column
total_row_TotalPopFromHH(df) ==
    [ c \in DisplayColumns \cup {"Month"} |->
        IF c = "Month" THEN GRAND_TOTAL
        ELSE IF c = "Total_Pop" THEN ColumnSum(df, "Total_HH")
        ELSE ColumnSum(df, c) ]

\* total_row = {'Month': 'GRAND TOTAL', col: display_df[col].sum() ...}
total_row(df) ==
    [ c \in DisplayColumns \cup {"Month"} |->
        IF c = "Month" THEN GRAND_TOTAL ELSE ColumnSum(df, c) ]

\* display_df: the month rows, then the grand total row when there are any
MonthlyDisplay(monthly_tally_df) ==
    LET all_months_data == [i \in 1..Len(monthly_tally_df) |-> month_data(monthly_tally_df[i])]
    IN IF all_months_data # << >>
       THEN Append(all_months_data, total_row(all_months_data))
       ELSE all_months_data

(***************************************************************************)
(* Report: interview outcomes                                              *)
(***************************************************************************)
\* the CTE restricted to households with the consent flag set
outcomes_cte_Consenting(db, site) ==
    { [ household_key |-> h.key,
        status_code |-> h.four_1_1,
        population |-> Cardinality({ i \in db.ind : Eq(i.parent_key, h.key) }) ]
      : h \in { x \in SiteRows(db.hh, site) : Eq(x.agree_yes, 1) } }

\* the CTE outcomes: one row per household of the site
outcomes_cte(db, site) ==
    { [ household_key |-> h.key,
        status_code |-> h.four_1_1,
        population |-> Cardinality({ i \in db.ind : Eq(i.parent_key, h.key) }) ]
      : h \in SiteRows(db.hh, site) }

\* the five SELECTs with the second one testing status_code = 1 again
outcome_types_Overlapping ==
    << << "Completed", 1 >>, << "Partially completed", 1 >>, << "Refusal", 3 >>,
       << "No competent respondent", 4 >>, << "Absent for extended period", 5 >> >>

\* the five SELECTs of the UNION ALL: the label each gives, and the
\* status_code it counts
outcome_types == << << "Completed", 1 >>, << "Partially completed", 2 >>, << "Refusal", 3 >>,
                    << "No competent respondent", 4 >>,
                    << "Absent for extended period", 5 >> >>

outcomes_query(db, site) ==
    LET O == outcomes_cte(db, site)
        with(k) == { o \in O : Eq(o.status_code, k) }
    IN [ n \in DOMAIN outcome_types |->
          [ outcome_type |-> outcome_types[n][1],
            households |-> Cardinality({ o.household_key : o \in with(outcome_types[n][2]) }),
            population |-> SumFn([o \in O |-> IF Eq(o.status_code, outcome_types[n][2])
                                                THEN o.population ELSE 0], O) ] ]

(***************************************************************************)
(* Report: mortality by sector                                             *)
(***************************************************************************)
\* CASE WHEN sector = 1 THEN 'Urban' ... ELSE 'Unknown' END
MortalitySectorLabel(sector) ==
    IF Eq(sector, 1) THEN "Urban"
    ELSE IF Eq(sector, 2) THEN "Peri-Urban"
    ELSE IF Eq(sector, 3) THEN "Settlement"
    ELSE IF Eq(sector, 4) THEN "Rural"
    ELSE "Unknown"

\* ORDER BY CASE WHEN sector='Urban' THEN 1 ... WHEN sector='TOTAL' THEN 5 ELSE 6 END
MortalityRank(label) ==
    IF label = "Urban" THEN 1
    ELSE IF label = "Peri-Urban" THEN 2
    ELSE IF label = "Settlement" THEN 3
    ELSE IF label = "Rural" THEN 4
    ELSE IF label = "TOTAL" THEN 5
    ELSE 6

\* SUM over a group of nullable values: NULL when no value is non-null
SqlSum(f, G) ==
    LET N == { h \in G : ~IsNull(f[h]) }
    IN IF N = {} THEN NULL ELSE Val(SumFn([h \in N |-> The(f[h])], N))

\* COUNT(CASE WHEN consent_three_7_1 = 1 THEN key END)
households_with_death(G) == Cardinality({ h \in G : Eq(h.consent_three_7_1, 1) })

\* SUM(CASE WHEN consent_three_7_1 = 1 THEN consent_death_three_7_2 ELSE 0 END)
total_deaths(G) ==
    SqlSum([h \in G |-> IF Eq(h.consent_three_7_1, 1)
                         THEN h.consent_death_three_7_2 ELSE Val(0)], G)

\* the rows of the UNION ALL; `grp` is the GROUP BY key behind a sector row
mortality_rows(db, site) ==
    LET S == SiteRows(db.hh, site)
        members(sec) == { h \in S : h.sector = sec }
    IN { [ grp |-> << "sector", sec >>,
           sector |-> MortalitySectorLabel(sec),
           households_with_death |-> households_with_death(members(sec)),
           total_deaths |-> total_deaths(members(sec)) ]
         : sec \in { h.sector : h \in S } }
       \cup
       { [ grp |-> << "total", NULL >>,
           sector |-> "TOTAL",
           households_with_death |-> households_with_death(S),
           total_deaths |-> total_deaths(S) ] }

\* every order of the rows that the ORDER BY allows (rows of equal rank
\* come in an order the store chooses)
mortality_query(db, site) ==
    LET R == mortality_rows(db, site)
        n == Cardinality(R)
    IN { s \in [1..n -> R] :
           /\ \A i, j \in 1..n : i # j => s[i] # s[j]
           /\ \A i, j \in 1..n : i < j => MortalityRank(s[i].sector) <= MortalityRank(s[j].sector) }

MortalityLabels == << "Urban", "Peri-Urban", "Settlement", "Rural", "TOTAL" >>

\* mortality_df[mortality_df['sector'] == label][col].values[0] if not ....empty else 0
MortalityCell(df, label, col) ==
    LET hit == { i \in 1..Len(df) : df[i].sector = label }
    IN IF hit = {} THEN Val(0)
       ELSE LET first == CHOOSE i \in hit : \A j \in hit : i <= j IN
            IF col = "households_with_death" THEN Val(df[first].households_with_death)
            ELSE df[first].total_deaths

\* A total_deaths column whose values are all NULL reaches pandas as objects
\* (None), and "{:,}".format(None) raises TypeError; with some number in the
\* column a NULL is a NaN, which formats.
MortalityFormatRaises(df) ==
    /\ \A i \in 1..Len(df) : IsNull(df[i].total_deaths)
    /\ \E n \in DOMAIN MortalityLabels : \E i \in 1..Len(df) : df[i].sector = MortalityLabels[n]

\* the ten numbers of the rendered table (a NULL cell renders as nan)
MortalityCells(df) ==
    [ n \in DOMAIN MortalityLabels |->
        [ sector |-> MortalityLabels[n],
          households_with_death |-> MortalityCell(df, MortalityLabels[n], "households_with_death"),
          total_deaths |-> MortalityCell(df, MortalityLabels[n], "total_deaths") ] ]

(***************************************************************************)
(* The pass: main() of dashboard.py, one action per block                  *)
(***************************************************************************)
\* the statements that may raise: reading the connection setting, the two
\* initial fetches, and the query of each view
Statements == { "secrets", "households", "individuals", "gps", "respondent",
                "individual", "daily", "monthly", "outcomes", "mortality" }

Views == { "gps", "respondent", "individual", "daily", "monthly", "outcomes", "mortality" }

NoTotals == [ total_hh_all |-> 0, total_ind_all |-> 0, total_hh_site |-> 0, total_ind_site |-> 0 ]

\* the handler of the initial load without its st.stop(): the pass goes on
OnLoadError_Continues == "site_filter"

\* except KeyError / except Exception around the initial load: st.error(...); st.stop()
OnLoadError == "stopped"

\* try: supabase_url = st.secrets[...]; engine = create_engine(...); hh_df = pd.read_sql(...)
LoadHouseholds ==
    /\ pc = "load_households"
    /\ IF "secrets" \in raises \/ "households" \in raises
       THEN /\ pc' = OnLoadError
            /\ UNCHANGED << hh_df, loaded >>
       ELSE /\ hh_df' = SelectHouseholds(store.hh)
            /\ loaded' = loaded \cup {"households"}
            /\ pc' = "load_individuals"
    /\ UNCHANGED << app, store, raises, selected_site, ind_df, site_hh_df, totals, status,
                    missing_gps_df, missing_respondent_df, missing_individual_df,
                    daily_tally_df, display_df, outcomes_df, mortality_df,
                    mortality_cells, writes, metrics >>

\* ind_df = pd.read_sql("SELECT parent_key, key FROM individuals", engine), in the same try
LoadIndividuals ==
    /\ pc = "load_individuals"
    /\ IF "individuals" \in raises
       THEN /\ pc' = OnLoadError
            /\ UNCHANGED << ind_df, loaded >>
       ELSE /\ ind_df' = SelectIndividuals(store.ind)
            /\ loaded' = loaded \cup {"individuals"}
            /\ pc' = "site_filter"
    /\ UNCHANGED << app, store, raises, selected_site, hh_df, site_hh_df, totals, status,
                    missing_gps_df, missing_respondent_df, missing_individual_df,
                    daily_tally_df, display_df, outcomes_df, mortality_df,
                    mortality_cells, writes, metrics >>

\* sector_name, the site filter and the totals
SiteFilter ==
    /\ pc = "site_filter"
    /\ hh_df' = Classify(hh_df)
    /\ site_hh_df' = SiteFilterRows(hh_df', selected_site)
    /\ totals' = [ total_hh_all |-> Cardinality(hh_df'),
                   total_ind_all |-> Cardinality(ind_df),
                   total_hh_site |-> Cardinality(site_hh_df'),
                   total_ind_site |-> IndividualsOf(ind_df, site_hh_df') ]
    /\ pc' = "gps"
    /\ UNCHANGED << app, store, raises, selected_site, ind_df, loaded, status,
                    missing_gps_df, missing_respondent_df, missing_individual_df,
                    daily_tally_df, display_df, outcomes_df, mortality_df,
                    mortality_cells, writes, metrics >>

\* Data Quality, the outer try: the GPS query and its summary.  Its except
\* is the handler at the end of the tab, past the other two checks.
GpsCheck ==
    /\ pc = "gps"
    /\ IF "gps" \in raises
       THEN /\ status' = [status EXCEPT !["gps"] = "error"]
            /\ pc' = "daily"
            /\ UNCHANGED << missing_gps_df, metrics >>
       ELSE /\ missing_gps_df' = missing_gps_query(store, selected_site)
            /\ metrics' = [metrics EXCEPT !.gps = GpsMetrics(missing_gps_df')]
            /\ status' = [status EXCEPT !["gps"] = "ok"]
            /\ pc' = "respondent"
    /\ UNCHANGED << app, store, raises, selected_site, hh_df, ind_df, loaded, site_hh_df, totals,
                    missing_respondent_df, missing_individual_df,
                    daily_tally_df, display_df, outcomes_df, mortality_df,
                    mortality_cells, writes >>

\* the missing-respondent check, in its own try inside the outer one
RespondentCheck ==
    /\ pc = "respondent"
    /\ IF "respondent" \in raises
       THEN /\ status' = [status EXCEPT !["respondent"] = "error"]
            /\ UNCHANGED << missing_respondent_df, metrics >>
       ELSE /\ missing_respondent_df' = missing_respondent_query(store, selected_site)
            /\ metrics' = [metrics EXCEPT !.respondent = RespondentMetrics(missing_respondent_df')]
            /\ status' = [status EXCEPT !["respondent"] = "ok"]
    /\ pc' = "individual"
    /\ UNCHANGED << app, store, raises, selected_site, hh_df, ind_df, loaded, site_hh_df, totals,
                    missing_gps_df, missing_individual_df,
                    daily_tally_df, display_df, outcomes_df, mortality_df,
                    mortality_cells, writes >>

\* the missing-individual check: a failed query is reported and replaced by
\* an empty frame
IndividualCheck ==
    /\ pc = "individual"
    /\ IF "individual" \in raises
       THEN /\ status' = [status EXCEPT !["individual"] = "error"]
            /\ missing_individual_df' = {}
            /\ UNCHANGED metrics
       ELSE /\ missing_individual_df' = missing_individual_query(store, selected_site)
            /\ metrics' = [metrics EXCEPT !.individual = IndividualMetrics(missing_individual_df')]
            /\ status' = [status EXCEPT !["individual"] = "ok"]
    /\ pc' = "daily"
    /\ UNCHANGED << app, store, raises, selected_site, hh_df, ind_df, loaded, site_hh_df, totals,
                    missing_gps_df, missing_respondent_df,
                    daily_tally_df, display_df, outcomes_df, mortality_df,
                    mortality_cells, writes >>

\* Form 1A
DailyTally ==
    /\ pc = "daily"
    /\ LET q == daily_tally_query(store, selected_site)
       IN IF "daily" \in raises \/ ~q.ok
          THEN /\ status' = [status EXCEPT !["daily"] = "error"]
               /\ UNCHANGED daily_tally_df
          ELSE /\ daily_tally_df' = q.rows
               /\ status' = [status EXCEPT !["daily"] = "ok"]
    /\ pc' = "monthly"
    /\ UNCHANGED << app, store, raises, selected_site, hh_df, ind_df, loaded, site_hh_df, totals,
                    missing_gps_df, missing_respondent_df, missing_individual_df,
                    display_df, outcomes_df, mortality_df, mortality_cells, writes, metrics >>

\* Form 1B: the query, the month rows and the grand total row
MonthlyTally ==
    /\ pc = "monthly"
    /\ LET q == monthly_tally_query(store, selected_site)
       IN IF "monthly" \in raises \/ ~q.ok
          THEN /\ status' = [status EXCEPT !["monthly"] = "error"]
               /\ UNCHANGED display_df
          ELSE /\ display_df' = MonthlyDisplay(q.rows)
               /\ status' = [status EXCEPT !["monthly"] = "ok"]
    /\ pc' = "outcomes"
    /\ UNCHANGED << app, store, raises, selected_site, hh_df, ind_df, loaded, site_hh_df, totals,
                    missing_gps_df, missing_respondent_df, missing_individual_df,
                    daily_tally_df, outcomes_df, mortality_df, mortality_cells, writes, metrics >>

\* Interview Outcomes
Outcomes ==
    /\ pc = "outcomes"
    /\ IF "outcomes" \in raises
       THEN /\ status' = [status EXCEPT !["outcomes"] = "error"]
            /\ UNCHANGED outcomes_df
       ELSE /\ outcomes_df' = outcomes_query(store, selected_site)
            /\ status' = [status EXCEPT !["outcomes"] = "ok"]
    /\ pc' = "mortality"
    /\ UNCHANGED << app, store, raises, selected_site, hh_df, ind_df, loaded, site_hh_df, totals,
                    missing_gps_df, missing_respondent_df, missing_individual_df,
                    daily_tally_df, display_df, mortality_df, mortality_cells, writes, metrics >>

\* Mortality Data: the query, then the formatted table
Mortality ==
    /\ pc = "mortality"
    /\ IF "mortality" \in raises
       THEN /\ status' = [status EXCEPT !["mortality"] = "error"]
            /\ UNCHANGED << mortality_df, mortality_cells >>
       ELSE \E df \in mortality_query(store, selected_site) :
            /\ mortality_df' = df
            /\ IF MortalityFormatRaises(df)
               THEN /\ status' = [status EXCEPT !["mortality"] = "error"]
                    /\ UNCHANGED mortality_cells
               ELSE /\ mortality_cells' = MortalityCells(df)
                    /\ status' = [status EXCEPT !["mortality"] = "ok"]
    /\ pc' = "done"
    /\ UNCHANGED << app, store, raises, selected_site, hh_df, ind_df, loaded, site_hh_df, totals,
                    missing_gps_df, missing_respondent_df, missing_individual_df,
                    daily_tally_df, display_df, outcomes_df, writes, metrics >>

Next ==
    \/ LoadHouseholds
    \/ LoadIndividuals
    \/ SiteFilter
    \/ GpsCheck
    \/ RespondentCheck
    \/ IndividualCheck
    \/ DailyTally
    \/ MonthlyTally
    \/ Outcomes
    \/ Mortality

(***************************************************************************)
(* The record store's contents and the user's inputs                       *)
(***************************************************************************)
MaxHouseholds == 2
MaxIndividuals == 1
MaxFaults == 2
MaxWrites == 1

\* interview timestamps: free text
Jan15     == << "2","0","2","4","-","0","1","-","1","5" >>
Jan15Time == << "2","0","2","4","-","0","1","-","1","5"," ","0","9",":","3","0" >>
Feb03     == << "2","0","2","4","-","0","2","-","0","3" >>
Month13   == << "2","0","2","4","-","1","3","-","4","5" >>
NotADate  == << "n","/","a" >>
\* a site name as stored with a capital letter
Central   == << "C","e","n","t","r","a","l" >>

\* a household row with every column present and in range
DefaultHousehold(k) ==
    [ key |-> k,
      pro_name |-> Val(central),
      location_name |-> Val("Gerehu"),
      location_num |-> Val(1),
      sector |-> Val(1),
      four_1_1 |-> Val(1),
      four_3_1 |-> Val("DC01"),
      four_5_1 |-> Val("QC01"),
      interview_date_time_1 |-> Val(Jan15),
      agree_yes |-> Val(1),
      hh_gps_latitude |-> Val(9), hh_gps_longitude |-> Val(147),
      hh_gps_altitude |-> Val(40), hh_gps_accuracy |-> Val(3),
      water_source_gps_latitude |-> Val(9), water_source_gps_longitude |-> Val(147),
      water_source_gps_altitude |-> Val(40), water_source_gps_accuracy |-> Val(3),
      toilet_gps_latitude |-> Val(9), toilet_gps_longitude |-> Val(147),
      toilet_gps_altitude |-> Val(40), toilet_gps_accuracy |-> Val(3),
      consent_respondent_name |-> Val("Kila"),
      consent_respondent_relo |-> Val("Head"),
      consent_total_hh_members |-> Val(4),
      consent_three_7_1 |-> Val(1),
      consent_death_three_7_2 |-> Val(1) ]

\* an individual row of household `parent`
Individual(k, parent) ==
    [ key |-> k, parent_key |-> parent,
      indiv_fname |-> Val("Mea"), indiv_lname |-> Val("Vagi"), sex |-> Val("F"),
      indiv_line_num |-> Val(k) ]

\* the sets of at most MaxHouseholds households, household k being one of
\* the rows R under the key k
HouseholdSets(R) ==
    UNION { { { [f[k] EXCEPT !.key = k] : k \in 1..n } : f \in [1..n -> R] }
            : n \in 0..MaxHouseholds }

\* the sets of at most MaxIndividuals individuals with parent keys from P
IndividualSets(P) ==
    UNION { { { Individual(j, f[j]) : j \in 1..m } : f \in [1..m -> P] } : m \in 0..MaxIndividuals }

\* parent keys: the households' keys, and 0, the key of no household
ParentKeys == { Val(k) : k \in 0..MaxHouseholds }

Stores(HH, IND) == { [hh |-> H, ind |-> I] : H \in HH, I \in IND }

FaultSets == { F \in SUBSET Statements : Cardinality(F) <= MaxFaults }

\* a script run of app.py that has reached dashboard_main() with the
\* session authenticated
InDashboard ==
    [ authentication_status |-> Val(TRUE), pc |-> "dashboard", event |-> "rerun",
      form_shown |-> FALSE, sidebar_shown |-> TRUE, runs |-> 1 ]

\* the state in which main() is entered
InitPass(S, sel, F) ==
    /\ store \in S
    /\ selected_site \in sel
    /\ raises \in F
    /\ app = InDashboard
    /\ pc = "load_households"
    /\ hh_df = {} /\ ind_df = {} /\ loaded = {}
    /\ site_hh_df = {}
    /\ totals = NoTotals
    /\ status = [v \in Views |-> "none"]
    /\ missing_gps_df = {} /\ missing_respondent_df = {} /\ missing_individual_df = {}
    /\ daily_tally_df = {} /\ display_df = << >> /\ outcomes_df = << >>
    /\ mortality_df = << >> /\ mortality_cells = << >>
    /\ metrics = [ gps |-> NoGpsMetrics, respondent |-> NoRespondentMetrics,
                   individual |-> NoIndividualMetrics ]
    /\ writes = 0

\* Spec: any statement may raise; households of two sites
SiteVariants(names) == { [DefaultHousehold(0) EXCEPT !.pro_name = v] : v \in names }
Init ==
    InitPass(Stores(HouseholdSets(SiteVariants({Val(central), Val(ncd)})),
                    IndividualSets({Val(1)})),
             {central, ncd}, FaultSets)
Spec == Init /\ [][Next]_vars

\* SpecDaily: consent flags, outcome codes and timestamps of the daily tally
DailyVariants ==
    { [DefaultHousehold(0) EXCEPT !.agree_yes = v[1], !.four_1_1 = v[2],
                                  !.interview_date_time_1 = v[3]]
      : v \in {NULL, Val(0), Val(1)} \X {NULL, Val(1), Val(3), Val(96)}
                \X {Val(Jan15), Val(Jan15Time), Val(Feb03), Val(NotADate)} }
InitDaily ==
    InitPass(Stores(HouseholdSets(DailyVariants), {{}}),
             {central}, {{}})
SpecDaily == InitDaily /\ [][Next]_vars

\* SpecMonthly: sectors, months and members of the progressive monthly tally
MonthlyVariants ==
    { [DefaultHousehold(0) EXCEPT !.sector = v[1], !.interview_date_time_1 = v[2],
                                  !.four_1_1 = v[3]]
      : v \in ({NULL, Val(1), Val(2), Val(5)} \X {Val(Jan15), Val(Feb03)} \X {Val(1)})
                \cup { << Val(1), Val(Jan15), Val(2) >>, << Val(1), Val(Month13), Val(1) >>,
                       << Val(1), Val(NotADate), Val(1) >> } }
InitMonthly ==
    InitPass(Stores(HouseholdSets(MonthlyVariants), IndividualSets({Val(1), Val(2)})),
             {central}, {{}})
SpecMonthly == InitMonthly /\ [][Next]_vars

\* SpecOutcome: outcome codes, consent flags and members of the outcome pivot
OutcomeVariants ==
    { [DefaultHousehold(0) EXCEPT !.four_1_1 = v[1], !.agree_yes = v[2]]
      : v \in ({NULL, Val(1), Val(4), Val(5), Val(6), Val(96)} \X {Val(1)})
                \cup ({Val(1), Val(5)} \X {Val(0)}) }
InitOutcome ==
    InitPass(Stores(HouseholdSets(OutcomeVariants), IndividualSets(ParentKeys)),
             {central}, {{}})
SpecOutcome == InitOutcome /\ [][Next]_vars

\* SpecSite: site names as stored, and every site of the selectbox
InitSite ==
    InitPass(Stores(HouseholdSets(SiteVariants({NULL, Val(central), Val(Central), Val(ncd)})),
                    IndividualSets(ParentKeys)),
             { sites[n] : n \in DOMAIN sites }, {{}})
SpecSite == InitSite /\ [][Next]_vars

\* SpecGps: the three GPS triples of a household.  A triple is complete or
\* lacks a coordinate, and its accuracy is below, at or above the threshold,
\* or unknown.
GpsTriple(lat, lon, alt, acc) == [lat |-> lat, lon |-> lon, alt |-> alt, acc |-> acc]
WithHouseholdGps(h, t) ==
    [h EXCEPT !.hh_gps_latitude = t.lat, !.hh_gps_longitude = t.lon,
              !.hh_gps_altitude = t.alt, !.hh_gps_accuracy = t.acc]
WithWaterSourceGps(h, t) ==
    [h EXCEPT !.water_source_gps_latitude = t.lat, !.water_source_gps_longitude = t.lon,
              !.water_source_gps_altitude = t.alt, !.water_source_gps_accuracy = t.acc]
WithToiletGps(h, t) ==
    [h EXCEPT !.toilet_gps_latitude = t.lat, !.toilet_gps_longitude = t.lon,
              !.toilet_gps_altitude = t.alt, !.toilet_gps_accuracy = t.acc]
Acc5    == GpsTriple(Val(9), Val(147), Val(40), Val(5))
Acc7    == GpsTriple(Val(9), Val(147), Val(40), Val(7))
AccNull == GpsTriple(Val(9), Val(147), Val(40), NULL)
LatNull == GpsTriple(NULL, Val(147), Val(40), Val(3))
LonNull == GpsTriple(Val(9), NULL, Val(40), Val(3))
AltNull == GpsTriple(Val(9), Val(147), NULL, Val(7))
AllNull == GpsTriple(NULL, NULL, NULL, NULL)
GpsVariants ==
    LET d == DefaultHousehold(0)
    IN {d}
       \cup { WithHouseholdGps(d, t) : t \in {Acc5, Acc7, AccNull, LatNull, LonNull, AltNull, AllNull} }
       \cup { WithWaterSourceGps(d, t) : t \in {Acc7, AccNull, LatNull, AltNull} }
       \cup { WithToiletGps(d, t) : t \in {Acc5, Acc7, AccNull, LonNull} }
       \cup { WithHouseholdGps(WithWaterSourceGps(WithToiletGps(d, LatNull), Acc7), Acc7),
              WithHouseholdGps(WithWaterSourceGps(WithToiletGps(d, Acc5), AccNull), AltNull),
              [WithHouseholdGps(d, Acc7) EXCEPT !.agree_yes = Val(0)],
              [WithWaterSourceGps(d, LatNull) EXCEPT !.agree_yes = NULL],
              [WithToiletGps(d, Acc7) EXCEPT !.pro_name = Val(ncd)] }
InitGps ==
    InitPass(Stores(HouseholdSets(GpsVariants), {{}}), {central}, {{}})
SpecGps == InitGps /\ [][Next]_vars

\* SpecIndividual: roster lines with and without name, sex and line number,
\* of consenting and unconsenting households, of other sites and of none
ConsentVariants ==
    { DefaultHousehold(0),
      [DefaultHousehold(0) EXCEPT !.agree_yes = Val(0)],
      [DefaultHousehold(0) EXCEPT !.pro_name = Val(ncd)] }
IndividualVariants ==
    { [Individual(0, p) EXCEPT !.indiv_fname = v[1], !.indiv_lname = v[2],
                               !.sex = v[3], !.indiv_line_num = v[4]]
      : p \in ParentKeys,
        v \in { << Val("Mea"), Val("Vagi"), Val("F"), Val(3) >>,
                << NULL, Val("Vagi"), Val("F"), Val(3) >>,
                << Val("Mea"), NULL, Val("F"), Val(3) >>,
                << Val("Mea"), Val("Vagi"), NULL, Val(3) >>,
                << NULL, NULL, NULL, Val(3) >>,
                << Val("Mea"), NULL, Val("F"), NULL >> } }
\* the sets of at most MaxIndividuals individuals, individual j being one of
\* the rows R under the key j
IndividualRowSets(R) ==
    UNION { { { [f[j] EXCEPT !.key = j] : j \in 1..m } : f \in [1..m -> R] }
            : m \in 0..MaxIndividuals }
InitIndividual ==
    InitPass(Stores(HouseholdSets(ConsentVariants), IndividualRowSets(IndividualVariants)),
             {central}, {{}})
SpecIndividual == InitIndividual /\ [][Next]_vars

\* SpecRespondent: respondent name, relationship and member count, present
\* or null, of consenting and unconsenting households
RespondentVariants ==
    { [DefaultHousehold(0) EXCEPT !.consent_respondent_name = v[1],
                                  !.consent_respondent_relo = v[2],
                                  !.consent_total_hh_members = v[3]]
      : v \in {NULL, Val("Kila")} \X {NULL, Val("Head")} \X {NULL, Val(4)} }
    \cup { [DefaultHousehold(0) EXCEPT !.consent_respondent_name = NULL, !.agree_yes = Val(0)],
           [DefaultHousehold(0) EXCEPT !.consent_respondent_relo = NULL, !.agree_yes = NULL],
           [DefaultHousehold(0) EXCEPT !.consent_total_hh_members = NULL, !.pro_name = Val(ncd)] }
InitRespondent ==
    InitPass(Stores(HouseholdSets(RespondentVariants), {{}}), {central}, {{}})
SpecRespondent == InitRespondent /\ [][Next]_vars

\* SpecMortality: sectors, death-consent flags and reported death counts
MortalityVariants ==
    { [DefaultHousehold(0) EXCEPT !.sector = v[1], !.consent_three_7_1 = v[2][1],
                                  !.consent_death_three_7_2 = v[2][2]]
      : v \in {NULL, Val(1), Val(2), Val(5)}
                \X { << Val(1), Val(1) >>, << Val(1), Val(2) >>, << Val(0), Val(1) >>,
                     << Val(1), NULL >>, << NULL, NULL >> } }
    \cup { [DefaultHousehold(0) EXCEPT !.pro_name = Val(ncd)] }
InitMortality ==
    InitPass(Stores(HouseholdSets(MortalityVariants), {{}}), {central}, {{}})
SpecMortality == InitMortality /\ [][Next]_vars

\* SpecDailyGroups: collectors, villages, days and outcome codes of the
\* groups of the daily tally; every timestamp is a date or absent
DailyGroupVariants ==
    { [DefaultHousehold(0) EXCEPT !.four_1_1 = v[1], !.interview_date_time_1 = v[2]]
      : v \in {NULL, Val(1), Val(3), Val(6)} \X {Val(Jan15), Val(Jan15Time), Val(Feb03)} }
    \cup { [DefaultHousehold(0) EXCEPT !.four_3_1 = Val("DC02")],
           [DefaultHousehold(0) EXCEPT !.location_name = Val("Morata"), !.four_1_1 = Val(3)],
           [DefaultHousehold(0) EXCEPT !.interview_date_time_1 = NULL, !.four_1_1 = Val(2)],
           [DefaultHousehold(0) EXCEPT !.agree_yes = Val(0)],
           [DefaultHousehold(0) EXCEPT !.agree_yes = NULL],
           [DefaultHousehold(0) EXCEPT !.pro_name = Val(ncd)] }
InitDailyGroups ==
    InitPass(Stores(HouseholdSets(DailyGroupVariants), {{}}), {central}, {{}})
SpecDailyGroups == InitDailyGroups /\ [][Next]_vars

\* SpecSector: every sector code of the enumeration, codes outside it and no
\* code, at the selected site and at another one
SectorVariants ==
    { [DefaultHousehold(0) EXCEPT !.sector = v[1], !.pro_name = v[2]]
      : v \in {NULL, Val(0), Val(1), Val(2), Val(3), Val(4), Val(5)}
                \X {Val(central), Val(ncd)} }
InitSector ==
    InitPass(Stores(HouseholdSets(SectorVariants), IndividualSets({Val(1)})), {central}, {{}})
SpecSector == InitSector /\ [][Next]_vars

\* SpecApp: script runs of app.py in one browser session.  Each run is
\* started by an event: the page is opened or a widget is used ("rerun"),
\* the login form is submitted with right or wrong credentials, or the Logout
\* or the Refresh Data button of the sidebar is clicked.
MaxRuns == 3

\* the buttons and forms that the previous run left on the page
Events ==
    {"rerun"}
    \cup (IF app.form_shown THEN {"submit_ok", "submit_bad"} ELSE {})
    \cup (IF app.sidebar_shown THEN {"logout", "refresh"} ELSE {})

\* a script run starts: the page is cleared and main() of app.py is entered
ScriptRun ==
    /\ app.pc = "idle"
    /\ app.runs < MaxRuns
    /\ \E e \in Events :
          app' = [app EXCEPT !.pc = "show_login", !.event = e, !.runs = @ + 1,
                             !.form_shown = FALSE, !.sidebar_shown = FALSE]
    /\ raises' \in {{}, {"households"}}
    /\ pc' = "load_households"
    /\ hh_df' = {} /\ ind_df' = {} /\ loaded' = {}
    /\ site_hh_df' = {}
    /\ totals' = NoTotals
    /\ status' = [v \in Views |-> "none"]
    /\ missing_gps_df' = {} /\ missing_respondent_df' = {} /\ missing_individual_df' = {}
    /\ daily_tally_df' = {} /\ display_df' = << >> /\ outcomes_df' = << >>
    /\ mortality_df' = << >> /\ mortality_cells' = << >>
    /\ metrics' = [ gps |-> NoGpsMetrics, respondent |-> NoRespondentMetrics,
                    individual |-> NoIndividualMetrics ]
    /\ UNCHANGED << store, selected_site, writes >>

\* show_login(): authenticator.login(location="main") shows the form to a
\* session that is not authenticated and writes the result of a submitted
\* form to st.session_state["authentication_status"]
ShowLogin ==
    /\ app.pc = "show_login"
    /\ LET result == IF app.authentication_status = Val(TRUE) THEN Val(TRUE)
                     ELSE IF app.event = "submit_ok" THEN Val(TRUE)
                     ELSE IF app.event = "submit_bad" THEN Val(FALSE)
                     ELSE app.authentication_status
       IN app' = [app EXCEPT !.authentication_status = result,
                             !.form_shown = (result # Val(TRUE)),
                             !.pc = "main"]
    /\ UNCHANGED << store, raises, selected_site, pc, hh_df, ind_df, loaded, site_hh_df,
                    totals, status, missing_gps_df, missing_respondent_df,
                    missing_individual_df, daily_tally_df, display_df, outcomes_df,
                    mortality_df, mortality_cells, writes, metrics >>

\* main() after show_login(): if st.session_state.get("authentication_status"):
\* the sidebar with the Logout and Refresh Data buttons, then dashboard_main().
\* A clicked Logout clears authentication_status inside authenticator.logout;
\* whether that call then ends the run (a rerun) or returns is the library's
\* choice.  A clicked Refresh Data ends the run with st.rerun().
AppMain ==
    /\ app.pc = "main"
    /\ IF app.authentication_status = Val(TRUE)
       THEN IF app.event = "logout"
            THEN \E cleared \in {NULL, Val(FALSE)} : \E returns \in BOOLEAN :
                    app' = [app EXCEPT !.authentication_status = cleared,
                                       !.sidebar_shown = returns,
                                       !.pc = IF returns THEN "dashboard" ELSE "idle"]
            ELSE IF app.event = "refresh"
            THEN app' = [app EXCEPT !.sidebar_shown = TRUE, !.pc = "idle"]
            ELSE app' = [app EXCEPT !.sidebar_shown = TRUE, !.pc = "dashboard"]
       ELSE app' = [app EXCEPT !.pc = "idle"]
    /\ UNCHANGED << store, raises, selected_site, pc, hh_df, ind_df, loaded, site_hh_df,
                    totals, status, missing_gps_df, missing_respondent_df,
                    missing_individual_df, daily_tally_df, display_df, outcomes_df,
                    mortality_df, mortality_cells, writes, metrics >>

\* dashboard_main(): the steps of the dashboard pass
dashboard_main == app.pc = "dashboard" /\ Next

\* dashboard_main() returned, or st.stop() ended the run
EndRun ==
    /\ app.pc = "dashboard"
    /\ pc \in {"done", "stopped"}
    /\ app' = [app EXCEPT !.pc = "idle"]
    /\ UNCHANGED << store, raises, selected_site, pc, hh_df, ind_df, loaded, site_hh_df,
                    totals, status, missing_gps_df, missing_respondent_df,
                    missing_individual_df, daily_tally_df, display_df, outcomes_df,
                    mortality_df, mortality_cells, writes, metrics >>

NextApp == ScriptRun \/ ShowLogin \/ AppMain \/ dashboard_main \/ EndRun

InitApp ==
    /\ store \in Stores(HouseholdSets(SiteVariants({Val(central), Val(ncd)})),
                         IndividualSets({Val(1)}))
    /\ selected_site = central
    /\ raises = {}
    /\ app = [ authentication_status |-> NULL, pc |-> "idle", event |-> "rerun",
               form_shown |-> FALSE, sidebar_shown |-> FALSE, runs |-> 0 ]
    /\ pc = "load_households"
    /\ hh_df = {} /\ ind_df = {} /\ loaded = {}
    /\ site_hh_df = {}
    /\ totals = NoTotals
    /\ status = [v \in Views |-> "none"]
    /\ missing_gps_df = {} /\ missing_respondent_df = {} /\ missing_individual_df = {}
    /\ daily_tally_df = {} /\ display_df = << >> /\ outcomes_df = << >>
    /\ mortality_df = << >> /\ mortality_cells = << >>
    /\ metrics = [ gps |-> NoGpsMetrics, respondent |-> NoRespondentMetrics,
                   individual |-> NoIndividualMetrics ]
    /\ writes = 0
SpecApp == InitApp /\ [][NextApp]_vars

\* SpecLive: the record store is written while the pass runs.  A writer
\* inserts a household of the first site, or deletes a household.
StoreChange ==
    /\ writes < MaxWrites
    /\ pc \notin {"done", "stopped"}
    /\ \/ store' = [store EXCEPT !.hh = @ \cup {DefaultHousehold(MaxHouseholds + 1 + writes)}]
       \/ \E h \in store.hh : store' = [store EXCEPT !.hh = @ \ {h}]
    /\ writes' = writes + 1
    /\ UNCHANGED << app, raises, selected_site, pc, hh_df, ind_df, loaded, site_hh_df, totals,
                    status, missing_gps_df, missing_respondent_df, missing_individual_df,
                    daily_tally_df, display_df, outcomes_df, mortality_df, mortality_cells,
                    metrics >>

NextLive == Next \/ StoreChange
InitLive ==
    InitPass(Stores(HouseholdSets(SiteVariants({Val(central), Val(ncd)})),
                    IndividualSets({Val(1)})),
             {central}, {{}})
SpecLive == InitLive /\ [][NextLive]_vars

(***************************************************************************)
(* Properties                                                              *)
(***************************************************************************)
SixOutcomeColumns(r) ==
    r.completed + r.partially_completed + r.refused
        + r.could_not_be_located + r.other + r.dont_know

\* C1: in every row of the daily tally, total_interviews is the sum of the
\* six outcome-count columns, whatever the households' outcome codes are.
C1_DailyRowTotalIsSumOfSix ==
    \A r \in daily_tally_df : r.total_interviews = SixOutcomeColumns(r)

\* C2: in every month row of the monthly progressive tally, Total (HH) is the
\* sum of the four sector household columns and Total (Pop) the sum of the
\* four sector population columns, whatever the households' sector codes are.
C2_MonthRowTotalIsSumOfSectors ==
    \A i \in 1..Len(display_df) :
        display_df[i].Month # GRAND_TOTAL =>
            /\ display_df[i].Total_HH = display_df[i].Urban_HH + display_df[i].PeriUrban_HH
                    + display_df[i].Settlement_HH + display_df[i].Rural_HH
            /\ display_df[i].Total_Pop = display_df[i].Urban_Pop + display_df[i].PeriUrban_Pop
                    + display_df[i].Settlement_Pop + display_df[i].Rural_Pop

\* C3: the displayed monthly tally, when it has rows, ends with the one
\* GRAND TOTAL row, and each of that row's ten numeric columns is the sum
\* of the column over the month rows before it.
C3_GrandTotalIsColumnSum ==
    display_df # << >> =>
        LET n == Len(display_df)
            months == SubSeq(display_df, 1, n - 1)
        IN /\ n >= 2
           /\ display_df[n].Month = GRAND_TOTAL
           /\ \A i \in 1..(n - 1) : display_df[i].Month # GRAND_TOTAL
           /\ \A c \in DisplayColumns :
                 display_df[n][c] = SumSeq([i \in 1..(n - 1) |-> months[i][c]])

\* C3 witness: two month rows with members, and a grand total over them
C3_Witness ==
    /\ status["monthly"] = "ok"
    /\ Len(display_df) = 3
    /\ display_df[1].Total_Pop >= 1
    /\ display_df[3].Total_HH = 2
    /\ display_df[3].Total_Pop >= 1

\* the entry of the outcome-code enumeration that an outcome label names
OutcomeMeaning(label) ==
    CASE label = "Completed" -> "Completed"
      [] label = "Partially completed" -> "Partially completed"
      [] label = "Refusal" -> "Household refused to participate"
      [] label = "No competent respondent" -> "No competent respondent available at home"
      [] label = "Absent for extended period"
            -> "Entire household migrated out/absent for extended period"
MeantCode(label) == CHOOSE c \in interview_codes : interview_map[c] = OutcomeMeaning(label)

\* C4: each category of the outcome pivot counts the households whose outcome
\* code is the one the enumeration gives that category's label (5 for
\* 'No competent respondent', 4 for the absent category, 1 / 2 / 3 for
\* Completed / Partially completed / Refusal).
C4_OutcomeLabelsFollowEnumeration ==
    status["outcomes"] = "ok" =>
        \A n \in 1..Len(outcomes_df) :
            outcomes_df[n].households =
                Cardinality({ h \in SiteRows(store.hh, selected_site) :
                                Eq(h.four_1_1, MeantCode(outcomes_df[n].outcome_type)) })

\* C5: the daily tally counts consenting households only: its rows count
\* exactly the households of the site whose agree_yes is 1.
C5_DailyCountsOnlyConsenting ==
    status["daily"] = "ok" =>
        SumFn([r \in daily_tally_df |-> r.total_interviews], daily_tally_df)
            = Cardinality({ h \in store.hh : Eq(h.agree_yes, 1) /\ Eq(h.pro_name, selected_site) })

\* C6: the views of one pass count the same households, those whose site
\* equals the selected one in any letter case: the outcome pivot and the
\* daily tally count the households of site_hh_df.
C6_ViewsShareCaseInsensitiveSite ==
    /\ status["outcomes"] = "ok" =>
          \A n \in 1..Len(outcomes_df) :
              outcomes_df[n].households =
                  Cardinality({ r \in site_hh_df : Eq(r.dwelling_number, outcome_types[n][2]) })
    /\ status["daily"] = "ok" =>
          SumFn([r \in daily_tally_df |-> r.total_interviews], daily_tally_df)
              = Cardinality({ r \in site_hh_df : ~IsNull(r.agree_yes) })

\* C7: when a view fails, only that view is skipped: at the end of the pass
\* every view has either been rendered or reported its own failure.
C7_FailedViewSkipsOnlyItself ==
    pc = "done" => \A v \in Views : status[v] # "none"

\* no household of the store is at the selected site, in any letter case
NoHouseholdAtSite ==
    \A h \in store.hh : IsNull(h.pro_name) \/ Lower(The(h.pro_name)) # Lower(selected_site)

\* C8: a selected site that matches no household gives zero households and
\* zero individuals in every view, and no view reports an error.
C8_UnknownSiteGivesZerosWithoutError ==
    (pc = "done" /\ NoHouseholdAtSite) =>
        /\ \A v \in Views : status[v] = "ok"
        /\ totals.total_hh_site = 0 /\ totals.total_ind_site = 0
        /\ missing_gps_df = {} /\ missing_respondent_df = {} /\ missing_individual_df = {}
        /\ daily_tally_df = {} /\ display_df = << >>
        /\ \A n \in 1..Len(outcomes_df) :
              outcomes_df[n].households = 0 /\ outcomes_df[n].population = 0
        /\ Len(mortality_cells) = Len(MortalityLabels)
        /\ \A n \in 1..Len(mortality_cells) :
              /\ mortality_cells[n].households_with_death = Val(0)
              /\ mortality_cells[n].total_deaths = Val(0)

\* C9: the views of a pass are those of the snapshot the pass loaded: the
\* outcome pivot and the daily tally count the households of hh_df, also when
\* the record store is written during the pass.
C9_ViewsReflectLoadedSnapshot ==
    /\ status["outcomes"] = "ok" =>
          \A n \in 1..Len(outcomes_df) :
              outcomes_df[n].households =
                  Cardinality({ r \in hh_df : Eq(r.pro_name, selected_site)
                                               /\ Eq(r.dwelling_number, outcome_types[n][2]) })
    /\ status["daily"] = "ok" =>
          SumFn([r \in daily_tally_df |-> r.total_interviews], daily_tally_df)
              = Cardinality({ r \in hh_df : Eq(r.pro_name, selected_site) /\ ~IsNull(r.agree_yes) })

NoOutput ==
    /\ \A v \in Views : status[v] = "none"
    /\ \A c \in DOMAIN metrics : ~metrics[c].shown
    /\ site_hh_df = {} /\ totals = NoTotals
    /\ missing_gps_df = {} /\ missing_respondent_df = {} /\ missing_individual_df = {}
    /\ daily_tally_df = {} /\ display_df = << >> /\ outcomes_df = << >>
    /\ mortality_df = << >> /\ mortality_cells = << >>

\* C10: when the connection setting is missing or one of the two initial
\* fetches fails, the pass stops with no view computed and no table produced;
\* a pass computes views only after both row sets were loaded.
C10_LoadFailureStopsPass ==
    /\ raises \cap {"secrets", "households", "individuals"} # {} =>
          pc \in {"load_households", "load_individuals", "stopped"}
    /\ pc = "stopped" => NoOutput
    /\ ~NoOutput => loaded = {"households", "individuals"}

\* C10 witness: the households were fetched, the fetch of the individuals
\* failed, and the pass has stopped
C10_Witness ==
    /\ pc = "stopped"
    /\ loaded = {"households"}
    /\ hh_df # {}
    /\ "individuals" \in raises

\* the three GPS triples of a household of the store, by triple type
TriplesOf(h) ==
    [ hh     |-> GpsTriple(h.hh_gps_latitude, h.hh_gps_longitude,
                           h.hh_gps_altitude, h.hh_gps_accuracy),
      water  |-> GpsTriple(h.water_source_gps_latitude, h.water_source_gps_longitude,
                           h.water_source_gps_altitude, h.water_source_gps_accuracy),
      toilet |-> GpsTriple(h.toilet_gps_latitude, h.toilet_gps_longitude,
                           h.toilet_gps_altitude, h.toilet_gps_accuracy) ]
Incomplete(t) == t.lat = NULL \/ t.lon = NULL \/ t.alt = NULL
Above5(t) == t.acc # NULL /\ The(t.acc) > 5
\* the consenting households of the selected site
ConsentingAtSite ==
    { h \in store.hh : h.agree_yes = Val(1) /\ h.pro_name = Val(selected_site) }

\* C11: a household is in the GPS defect detail table, once, iff its consent
\* flag is set, its site is the selected one, and one of its three GPS
\* triples lacks latitude, longitude or altitude, or has an accuracy above 5,
\* or has no accuracy.
C11_GpsDetailIffDefect ==
    status["gps"] = "ok" =>
        /\ { r.row : r \in missing_gps_df }
             = { h.key : h \in { x \in ConsentingAtSite :
                                   \E c \in {"hh", "water", "toilet"} :
                                       \/ Incomplete(TriplesOf(x)[c])
                                       \/ Above5(TriplesOf(x)[c])
                                       \/ TriplesOf(x)[c].acc = NULL } }
        /\ Cardinality(missing_gps_df) = Cardinality({ r.row : r \in missing_gps_df })

\* C11 witness: of two consenting households of the site, the one whose only
\* defect is an unknown toilet accuracy is listed, the one without defect is not
C11_Witness ==
    /\ status["gps"] = "ok"
    /\ Cardinality(ConsentingAtSite) = 2
    /\ Cardinality(missing_gps_df) = 1
    /\ \E r \in missing_gps_df :
          /\ r.ToiletGPSAccuracy.word = "N/A"
          /\ r.HouseholdGPS = "Complete" /\ r.WaterSourceGPS = "Complete" /\ r.ToiletGPS = "Complete"
          /\ r.HouseholdGPSAccuracy.word = "Accurate" /\ r.WaterSourceGPSAccuracy.word = "Accurate"

\* C12: each of the six GPS summary counters counts its own triple type: the
\* missing-count is the number of consenting site households whose triple of
\* that type is incomplete, the inaccurate-count the number whose accuracy of
\* that type is above 5.
C12_GpsCountersPerTripleType ==
    status["gps"] = "ok" =>
        LET missing(c) == Cardinality({ h \in ConsentingAtSite : Incomplete(TriplesOf(h)[c]) })
            inaccurate(c) == Cardinality({ h \in ConsentingAtSite : Above5(TriplesOf(h)[c]) })
        IN /\ metrics.gps.hh_missing = missing("hh")
           /\ metrics.gps.hh_inaccurate = inaccurate("hh")
           /\ metrics.gps.water_missing = missing("water")
           /\ metrics.gps.water_inaccurate = inaccurate("water")
           /\ metrics.gps.toilet_missing = missing("toilet")
           /\ metrics.gps.toilet_inaccurate = inaccurate("toilet")
           /\ metrics.gps.shown = (missing_gps_df # {})

\* C12 witness: two households are listed; one has only its water-source
\* accuracy above 5, the other adds to three counters at once
C12_Witness ==
    /\ status["gps"] = "ok"
    /\ metrics.gps = [ shown |-> TRUE, hh_missing |-> 0, hh_inaccurate |-> 1,
                       water_missing |-> 0, water_inaccurate |-> 2,
                       toilet_missing |-> 1, toilet_inaccurate |-> 0 ]
    /\ \E r \in missing_gps_df :
          /\ r.WaterSourceGPSAccuracy = [word |-> "Inaccurate", m |-> Val(7)]
          /\ r.HouseholdGPSAccuracy.word = "Accurate" /\ r.ToiletGPSAccuracy.word = "Accurate"
          /\ r.HouseholdGPS = "Complete" /\ r.ToiletGPS = "Complete"

\* C13: in every listed row and for each of the three triples, the
\* completeness label is 'Missing' iff latitude, longitude or altitude is
\* null and 'Complete' otherwise; the accuracy label is 'N/A' iff the accuracy
\* is null, 'Inaccurate' iff it is above 5 and 'Accurate' otherwise.
C13_GpsLabels ==
    status["gps"] = "ok" =>
        \A r \in missing_gps_df : \A h \in store.hh : h.key = r.row =>
            LET t == TriplesOf(h)
                completeness == [ hh |-> r.HouseholdGPS, water |-> r.WaterSourceGPS,
                                  toilet |-> r.ToiletGPS ]
                accuracy == [ hh |-> r.HouseholdGPSAccuracy.word,
                              water |-> r.WaterSourceGPSAccuracy.word,
                              toilet |-> r.ToiletGPSAccuracy.word ]
            IN \A c \in {"hh", "water", "toilet"} :
                  /\ completeness[c] \in {"Missing", "Complete"}
                  /\ (completeness[c] = "Missing") <=> Incomplete(t[c])
                  /\ accuracy[c] \in {"N/A", "Inaccurate", "Accurate"}
                  /\ (accuracy[c] = "N/A") <=> (t[c].acc = NULL)
                  /\ (accuracy[c] = "Inaccurate") <=> Above5(t[c])

\* C13 witness: a listed household with an accuracy of exactly 5 labelled
\* Accurate, and an incomplete triple labelled Missing whatever its accuracy
C13_Witness ==
    /\ status["gps"] = "ok"
    /\ \E r \in missing_gps_df :
          /\ r.ToiletGPSAccuracy = [word |-> "Accurate", m |-> Val(5)]
          /\ r.HouseholdGPS = "Missing"
          /\ r.HouseholdGPSAccuracy.word = "Inaccurate"
          /\ r.WaterSourceGPSAccuracy.word = "N/A"

\* C14: an individual is in the missing-individual detail table, once, iff its
\* roster line number is not null, its first name, last name or sex is null,
\* and its parent key is the key of a consenting household of the selected
\* site; each of the three counters counts the listed individuals whose own
\* field is null.
C14_MissingIndividualIff ==
    status["individual"] = "ok" =>
        LET flagged == { i \in store.ind :
                           /\ i.indiv_line_num # NULL
                           /\ i.indiv_fname = NULL \/ i.indiv_lname = NULL \/ i.sex = NULL
                           /\ \E h \in ConsentingAtSite : i.parent_key = Val(h.key) }
        IN /\ { r.row : r \in missing_individual_df } = { i.key : i \in flagged }
           /\ Cardinality(missing_individual_df) = Cardinality(flagged)
           /\ metrics.individual.missing_fname
                 = Cardinality({ i \in flagged : i.indiv_fname = NULL })
           /\ metrics.individual.missing_lname
                 = Cardinality({ i \in flagged : i.indiv_lname = NULL })
           /\ metrics.individual.missing_sex
                 = Cardinality({ i \in flagged : i.sex = NULL })

\* C14 witness: the one listed individual has a line number, a first name and
\* a sex but no last name, and only the last-name counter is 1
C14_Witness ==
    /\ status["individual"] = "ok"
    /\ \E r \in missing_individual_df :
          /\ r.indiv_line_num = Val(3) /\ r.indiv_fname # NULL
          /\ r.indiv_lname = NULL /\ r.sex = Val("F")
    /\ metrics.individual = [ shown |-> TRUE, missing_fname |-> 0,
                              missing_lname |-> 1, missing_sex |-> 0 ]

\* C15: a household is in the missing-respondent detail table, once, iff its
\* consent flag is set, its site is the selected one, and its respondent name,
\* respondent relationship or total-member count is null; each of the three
\* counters counts the listed households whose own field is null.
C15_MissingRespondentIff ==
    status["respondent"] = "ok" =>
        LET flagged == { h \in ConsentingAtSite :
                           \/ h.consent_respondent_name = NULL
                           \/ h.consent_respondent_relo = NULL
                           \/ h.consent_total_hh_members = NULL }
        IN /\ { r.row : r \in missing_respondent_df } = { h.key : h \in flagged }
           /\ Cardinality(missing_respondent_df) = Cardinality(flagged)
           /\ metrics.respondent.missing_name
                 = Cardinality({ h \in flagged : h.consent_respondent_name = NULL })
           /\ metrics.respondent.missing_relo
                 = Cardinality({ h \in flagged : h.consent_respondent_relo = NULL })
           /\ metrics.respondent.missing_members
                 = Cardinality({ h \in flagged : h.consent_total_hh_members = NULL })

\* C15 witness: one household is listed, an unconsenting one with a null name
\* is not, and the three counters sum to more than the one listed household
C15_Witness ==
    /\ status["respondent"] = "ok"
    /\ Cardinality(missing_respondent_df) = 1
    /\ \E h \in store.hh : h.agree_yes = Val(0) /\ h.consent_respondent_name = NULL
    /\ metrics.respondent.missing_name + metrics.respondent.missing_relo
          + metrics.respondent.missing_members > 1

\* the place of a label in the fixed order Urban .. TOTAL
MortalityPlace(label) == CHOOSE n \in DOMAIN MortalityLabels : MortalityLabels[n] = label

\* C16: the rows of the mortality-by-sector result are rows of Urban,
\* Peri-Urban, Settlement, Rural, TOTAL only, each at most once and in that
\* order, and TOTAL is the last row, whatever the households' sector codes.
C16_MortalityRowsFixedOrder ==
    mortality_df # << >> =>
        /\ \A i \in 1..Len(mortality_df) :
              \E n \in DOMAIN MortalityLabels : mortality_df[i].sector = MortalityLabels[n]
        /\ \A i, j \in 1..Len(mortality_df) :
              (i < j /\ (\A k \in {i, j} : \E n \in DOMAIN MortalityLabels :
                                              mortality_df[k].sector = MortalityLabels[n]))
                 => MortalityPlace(mortality_df[i].sector) < MortalityPlace(mortality_df[j].sector)
        /\ mortality_df[Len(mortality_df)].sector = "TOTAL"

\* the reported deaths of the site's households of sector `name` whose
\* death-consent flag is set
DeathsOfSector(name) ==
    LET G == { h \in SiteRows(store.hh, selected_site) :
                 /\ SectorName(h.sector) = Val(name)
                 /\ h.consent_three_7_1 = Val(1)
                 /\ h.consent_death_three_7_2 # NULL }
    IN SumFn([h \in G |-> The(h.consent_death_three_7_2)], G)

\* C17: in the rendered mortality table each sector row's death total is the
\* sum of the reported death counts of the site's households of that sector
\* with the death-consent flag set, and the TOTAL row's death total is the
\* sum of the four sector rows' death totals.
C17_MortalityTotalIsSumOfSectors ==
    (status["mortality"] = "ok"
       /\ \A n \in 1..Len(mortality_cells) : mortality_cells[n].total_deaths # NULL) =>
        /\ \A n \in 1..4 :
              The(mortality_cells[n].total_deaths) = DeathsOfSector(mortality_cells[n].sector)
        /\ The(mortality_cells[5].total_deaths)
              = SumSeq([n \in 1..4 |-> The(mortality_cells[n].total_deaths)])

\* the individuals whose parent key is the key of a household of the store
Linked == { i \in store.ind : \E h \in store.hh : i.parent_key = Val(h.key) }

\* C18: no population count includes an orphaned individual: the all-sites
\* and the site individual totals count linked individuals only, the monthly
\* tally and the outcome pivot are those of the store without its orphans,
\* and neither of them reports an error.
C18_OrphansInNoPopulationCount ==
    LET linked == [store EXCEPT !.ind = Linked]
    IN /\ pc \notin {"load_households", "load_individuals", "site_filter", "stopped"} =>
             /\ totals.total_ind_all = Cardinality(Linked)
             /\ totals.total_ind_site
                   = Cardinality({ i \in Linked : \E r \in site_hh_df : i.parent_key = Val(r.key) })
       /\ status["monthly"] # "error" /\ status["outcomes"] # "error"
       /\ status["monthly"] = "ok" =>
             display_df = MonthlyDisplay(monthly_tally_query(linked, selected_site).rows)
       /\ status["outcomes"] = "ok" => outcomes_df = outcomes_query(linked, selected_site)

\* the site's households that the n-th category of the pivot tests for
HouseholdsOfCategory(n) ==
    { h \in SiteRows(store.hh, selected_site) : h.four_1_1 = Val(outcome_types[n][2]) }

\* C19: the five category household counts of the outcome pivot count no
\* household twice and count no household whose outcome code is null, 6, 96
\* or otherwise outside the five categories: together they count the site's
\* households with one of the five codes, which may be fewer than the site's
\* households.
C19_OutcomeCategoriesDisjoint ==
    status["outcomes"] = "ok" =>
        /\ SumSeq([n \in 1..Len(outcomes_df) |-> outcomes_df[n].households])
              = Cardinality({ h \in SiteRows(store.hh, selected_site) :
                                h.four_1_1 \in { Val(k) : k \in 1..5 } })
        /\ \A n \in 1..Len(outcomes_df) :
              outcomes_df[n].households <= Cardinality(HouseholdsOfCategory(n))

\* C19 witness: of two households one has the code 96 or 6 or none, the
\* other is counted in one category, and the five counts sum to 1
C19_Witness ==
    /\ status["outcomes"] = "ok"
    /\ Cardinality(SiteRows(store.hh, selected_site)) = 2
    /\ \E h \in store.hh : h.four_1_1 \in {NULL, Val(6), Val(96)}
    /\ SumSeq([n \in 1..Len(outcomes_df) |-> outcomes_df[n].households]) = 1

\* C20: each category's household count is the number of the site's
\* households with the category's outcome code, whatever their consent flag,
\* and its population is the number of individuals whose parent key is the
\* key of one of those households.
C20_OutcomeCountsAndPopulation ==
    status["outcomes"] = "ok" =>
        \A n \in 1..Len(outcomes_df) :
            /\ outcomes_df[n].households = Cardinality(HouseholdsOfCategory(n))
            /\ outcomes_df[n].population
                  = Cardinality({ i \in store.ind :
                                    \E h \in HouseholdsOfCategory(n) : i.parent_key = Val(h.key) })

\* C20 witness: two completed households, one of them without consent and
\* one of them without individuals, counted as 2 households and 1 person
C20_Witness ==
    /\ status["outcomes"] = "ok"
    /\ outcomes_df[1].households = 2 /\ outcomes_df[1].population = 1
    /\ \E h \in store.hh : h.four_1_1 = Val(1) /\ h.agree_yes = Val(0)
    /\ \E h \in store.hh : h.four_1_1 = Val(1) /\ h.agree_yes = Val(1)

\* a timestamp that begins with a well-formed year-month-day date
BeginsWithDate(t) ==
    /\ t # NULL
    /\ MatchesDatePrefix(The(t))
    /\ ToDate(Substring10(The(t))).ok

\* C21: a site household whose timestamp does not begin with a well-formed
\* date, or whose outcome code is not 1, is left out of the monthly tally
\* without failing it: the view is rendered, and its month rows count exactly
\* the site's completed households whose timestamp begins with a date.
C21_MonthlyExcludesMalformedDates ==
    status["monthly"] # "none" =>
        /\ status["monthly"] = "ok"
        /\ SumSeq([i \in 1..Len(display_df) |->
                     IF display_df[i].Month = GRAND_TOTAL THEN 0 ELSE display_df[i].Total_HH])
              = Cardinality({ h \in SiteRows(store.hh, selected_site) :
                                h.four_1_1 = Val(1) /\ BeginsWithDate(h.interview_date_time_1) })

\* C22: a household whose timestamp cannot be read as a date is still in the
\* daily tally: the view is rendered and its rows count every household that
\* the tally selects, whatever its timestamp.
C22_DailyKeepsUnparseableDates ==
    status["daily"] # "none" =>
        /\ status["daily"] = "ok"
        /\ SumFn([r \in daily_tally_df |-> r.total_interviews], daily_tally_df)
              = Cardinality({ h \in store.hh : daily_tally_where(h, selected_site) })

\* the calendar day of a timestamp that is a date, with or without a time
DayOf(t) ==
    IF t = NULL THEN NULL
    ELSE LET d == ToDate(Substring10(The(t))) IN Val(<< d.y, d.m, d.d >>)

\* the households that the daily tally puts in the group of its row r
HouseholdsOfGroup(r) ==
    { h \in store.hh :
        /\ daily_tally_where(h, selected_site)
        /\ h.four_3_1 = r.data_collector
        /\ h.location_name = r.village_name
        /\ DayOf(h.interview_date_time_1) = r.collection_date }

C24_SectorNameOrNull ==
    pc \notin {"load_households", "load_individuals", "site_filter", "stopped"} =>
        /\ \A r \in hh_df :
              /\ r.sector_name \in { NULL, Val("Urban"), Val("Peri-Urban"),
                                      Val("Settlement"), Val("Rural") }
              /\ (r.sector_name = NULL) <=> (r.sector = NULL \/ The(r.sector) \notin {1, 2, 3, 4})
              /\ r.sector = Val(1) => r.sector_name = Val("Urban")
              /\ r.sector = Val(2) => r.sector_name = Val("Peri-Urban")
              /\ r.sector = Val(3) => r.sector_name = Val("Settlement")
              /\ r.sector = Val(4) => r.sector_name = Val("Rural")
        /\ { r.key : r \in hh_df } = { h.key : h \in store.hh }
        /\ totals.total_hh_all = Cardinality(store.hh)
        /\ totals.total_hh_site
              = Cardinality({ h \in store.hh : h.pro_name = Val(selected_site) })

\* C24 witness: a household of the site with the sector code 5 has no
\* sector_name and is counted, next to one with the code 4 named Rural
C24_Witness ==
    /\ pc = "gps"
    /\ \E r \in site_hh_df : r.sector = Val(5) /\ r.sector_name = NULL
    /\ \E r \in site_hh_df : r.sector = Val(4) /\ r.sector_name = Val("Rural")
    /\ totals.total_hh_site = 2

\* a household whose three triples are complete and whose accuracies are
\* null or at most 5, one of them at least being null
OnlyUnknownAccuracy(h) ==
    /\ \A c \in {"hh", "water", "toilet"} :
          ~Incomplete(TriplesOf(h)[c]) /\ ~Above5(TriplesOf(h)[c])
    /\ \E c \in {"hh", "water", "toilet"} : TriplesOf(h)[c].acc = NULL

\* C26: a consenting household of the site whose only GPS defect is an
\* unknown accuracy is listed in the detail table and adds to none of the six
\* counters: each counter is the count of the other listed households with
\* its defect, and when every listed household is of that kind all six are 0.
C26_UnknownAccuracyListedUncounted ==
    status["gps"] = "ok" =>
        LET unknown == { h \in ConsentingAtSite : OnlyUnknownAccuracy(h) }
            others == { r \in missing_gps_df : r.row \notin { h.key : h \in unknown } }
        IN /\ { h.key : h \in unknown } \subseteq { r.row : r \in missing_gps_df }
           /\ metrics.gps.hh_missing = hh_missing(others)
           /\ metrics.gps.hh_inaccurate = hh_inaccurate(others)
           /\ metrics.gps.water_missing = water_missing(others)
           /\ metrics.gps.water_inaccurate = water_inaccurate(others)
           /\ metrics.gps.toilet_missing = toilet_missing(others)
           /\ metrics.gps.toilet_inaccurate = toilet_inaccurate(others)
           /\ (others = {}) =>
                 \A c \in DOMAIN metrics.gps \ {"shown"} : metrics.gps[c] = 0

\* C26 witness: two households are listed, each for an unknown accuracy only,
\* and the six counters are shown as 0
C26_Witness ==
    /\ status["gps"] = "ok"
    /\ Cardinality(missing_gps_df) = 2
    /\ \A h \in store.hh : h \in ConsentingAtSite /\ OnlyUnknownAccuracy(h)
    /\ metrics.gps = [ shown |-> TRUE, hh_missing |-> 0, hh_inaccurate |-> 0,
                       water_missing |-> 0, water_inaccurate |-> 0,
                       toilet_missing |-> 0, toilet_inaccurate |-> 0 ]

\* C25: the dashboard body runs only while the session's authentication_status
\* is true: while it is False or None the script is not in dashboard_main(),
\* no record has been loaded in this run and no view is on the page.
C25_DashboardOnlyWhenAuthenticated ==
    app.authentication_status # Val(TRUE) =>
        /\ app.pc # "dashboard"
        /\ loaded = {} /\ hh_df = {} /\ ind_df = {}
        /\ NoOutput

====
